---- MODULE Spec2Model ----
(***************************************************************************)
(* Model of the spec codec and the pull-request service of go-sourcegraph. *)
(*                                                                         *)
(* Strings are sequences of one-character strings, so that prefix tests,   *)
(* splitting, integer parsing and integer formatting are computed the way  *)
(* the Go code computes them.  A Go map[string]string is a function whose  *)
(* DOMAIN is the set of keys present.                                      *)
(***************************************************************************)
EXTENDS Integers, Sequences, FiniteSets, TLC

VARIABLES call, svc

vars == <<call, svc>>

----------------------------------------------------------------------------
(* Bounds of the model *)

\* width of the modelled Go int (strconv's intSize), scaled down
IntBits == 6
\* longest person text that is parsed
MaxTextLen == 3
\* longest login / email of a formatted PersonSpec
MaxNameLen == 2
\* longest value of a "Pull" / "CommentID" route variable
MaxVarLen == 2
\* most path segments of an HTMLURL
MaxSegs == 3

RECURSIVE Pow2(_)
Pow2(n) == IF n = 0 THEN 1 ELSE 2 * Pow2(n - 1)

MaxInt == Pow2(IntBits - 1) - 1
MinInt == -Pow2(IntBits - 1)
GoInt == MinInt..MaxInt

\* all strings over alphabet A of length at most n
StringsUpTo(A, n) == UNION {[1..k -> A] : k \in 0..n}

----------------------------------------------------------------------------
(* strconv *)

DigitChars == <<"0", "1", "2", "3", "4", "5", "6", "7", "8", "9">>

IsDigit(c) == \E i \in 1..10 : DigitChars[i] = c

DigitVal(c) == (CHOOSE i \in 1..10 : DigitChars[i] = c) - 1

RECURSIVE DecVal(_)
DecVal(ds) ==
    IF Len(ds) = 0 THEN 0
    ELSE 10 * DecVal(SubSeq(ds, 1, Len(ds) - 1)) + DigitVal(ds[Len(ds)])

NilErr == [kind |-> "nil", num |-> <<>>]

NumError(s, e) == [kind |-> e, num |-> s]

\* strconv.Atoi: optional sign, then one or more decimal digits; a syntax
\* error yields 0, a range error yields the nearest representable int.
Atoi(s) ==
    LET signed == Len(s) > 0 /\ s[1] \in {"+", "-"}
        neg    == signed /\ s[1] = "-"
        ds     == IF signed THEN Tail(s) ELSE s
    IN  IF Len(ds) = 0 \/ \E i \in 1..Len(ds) : ~IsDigit(ds[i])
        THEN [n |-> 0, err |-> NumError(s, "ErrSyntax")]
        ELSE LET mag == DecVal(ds)
             IN  IF ~neg /\ mag > MaxInt
                 THEN [n |-> MaxInt, err |-> NumError(s, "ErrRange")]
                 ELSE IF neg /\ mag > -MinInt
                 THEN [n |-> MinInt, err |-> NumError(s, "ErrRange")]
                 ELSE [n |-> IF neg THEN -mag ELSE mag, err |-> NilErr]

RECURSIVE FormatUint(_)
FormatUint(n) ==
    IF n < 10 THEN <<DigitChars[n + 1]>>
    ELSE FormatUint(n \div 10) \o <<DigitChars[(n % 10) + 1]>>

\* strconv.Itoa: canonical decimal, "-" before a negative number
Itoa(n) == IF n < 0 THEN <<"-">> \o FormatUint(-n) ELSE FormatUint(n)

----------------------------------------------------------------------------
(* strings *)

HasPrefix(s, p) == Len(s) >= Len(p) /\ SubSeq(s, 1, Len(p)) = p

Contains(s, c) == \E i \in 1..Len(s) : s[i] = c

TrimPrefix(s, p) == IF HasPrefix(s, p) THEN SubSeq(s, Len(p) + 1, Len(s)) ELSE s

\* strings.Split(s, sep) for a one-character separator: always at least
\* one element, empty elements kept
RECURSIVE Split(_, _)
Split(s, sep) ==
    IF ~Contains(s, sep) THEN <<s>>
    ELSE LET i == CHOOSE j \in 1..Len(s) :
                      s[j] = sep /\ \A k \in 1..(j - 1) : s[k] # sep
         IN  <<SubSeq(s, 1, i - 1)>> \o Split(SubSeq(s, i + 1, Len(s)), sep)

RECURSIVE Join(_, _)
Join(parts, sep) ==
    IF Len(parts) = 0 THEN <<>>
    ELSE IF Len(parts) = 1 THEN parts[1]
    ELSE parts[1] \o <<sep>> \o Join(Tail(parts), sep)

----------------------------------------------------------------------------
(* PersonSpec *)

PersonSpec(login, email, uid) == [Login |-> login, Email |-> email, UID |-> uid]

ZeroPersonSpec == PersonSpec(<<>>, <<>>, 0)

\* number of populated fields of a PersonSpec
Populated(s) ==
    (IF s.Login # <<>> THEN 1 ELSE 0) + (IF s.Email # <<>> THEN 1 ELSE 0)
        + (IF s.UID > 0 THEN 1 ELSE 0)


\* ParsePersonSpec with the "@" test ahead of the "$" test
ParsePersonSpec_AtFirst(text) ==
    IF Contains(text, "@")
    THEN [spec |-> PersonSpec(<<>>, text, 0), err |-> NilErr]
    ELSE IF HasPrefix(text, <<"$">>)
    THEN LET r == Atoi(Tail(text))
         IN  IF r.err # NilErr \/ r.n < 0
             THEN [spec |-> ZeroPersonSpec,
                   err |-> [kind |-> "InvalidFormat", num |-> Tail(text)]]
             ELSE [spec |-> PersonSpec(<<>>, <<>>, r.n), err |-> NilErr]
    ELSE [spec |-> PersonSpec(text, <<>>, 0), err |-> NilErr]

\* Parse(text): "$" prefix, then "@", then login
ParsePersonSpec(text) ==
    IF HasPrefix(text, <<"$">>)
    THEN LET r == Atoi(Tail(text))
         IN  IF r.err # NilErr \/ r.n < 0
             THEN [spec |-> ZeroPersonSpec,
                   err |-> [kind |-> "InvalidFormat", num |-> Tail(text)]]
             ELSE [spec |-> PersonSpec(<<>>, <<>>, r.n), err |-> NilErr]
    ELSE IF Contains(text, "@")
    THEN [spec |-> PersonSpec(<<>>, text, 0), err |-> NilErr]
    ELSE [spec |-> PersonSpec(text, <<>>, 0), err |-> NilErr]

Formatted(str) == [panic |-> FALSE, str |-> str]

FormatPanic == [panic |-> TRUE, str |-> <<>>]


\* PathComponent writing the UID without its "$" mark
PathComponent_NoDollar(s) ==
    IF Populated(s) = 1
    THEN IF s.UID > 0 THEN {Formatted(Itoa(s.UID))}
         ELSE IF s.Email # <<>> THEN {Formatted(s.Email)}
         ELSE {Formatted(s.Login)}
    ELSE {FormatPanic, Formatted(s.Login), Formatted(s.Email),
          Formatted(<<"$">> \o Itoa(s.UID))}

\* Format(spec): the set of results the formatter may give.  With exactly
\* one field populated the result is determined; otherwise it is left
\* unspecified, and any field's rendering or a failure may come out.
PathComponent(s) ==
    IF Populated(s) = 1
    THEN IF s.UID > 0 THEN {Formatted(<<"$">> \o Itoa(s.UID))}
         ELSE IF s.Email # <<>> THEN {Formatted(s.Email)}
         ELSE {Formatted(s.Login)}
    ELSE {FormatPanic, Formatted(s.Login), Formatted(s.Email),
          Formatted(<<"$">> \o Itoa(s.UID))}

----------------------------------------------------------------------------
(* RepoSpec, PullRequestSpec, PullRequestCommentSpec *)

\* Go's v[k] on a map[string]string: the empty string for a missing key
MapGet(v, k) == IF k \in DOMAIN v THEN v[k] ELSE <<>>

RepoSpec(uri) == [URI |-> uri]

PullRequestSpec(repo, number) == [Repo |-> repo, Number |-> number]

PullRequestCommentSpec(pull, comment) == [Pull |-> pull, Comment |-> comment]

ZeroPullRequestSpec == PullRequestSpec(RepoSpec(<<>>), 0)

ZeroPullRequestCommentSpec == PullRequestCommentSpec(ZeroPullRequestSpec, 0)

RepoSpecErr == [kind |-> "RepoSpecError", num |-> <<>>]

\* the repo collaborator: the value under "RepoSpec" is the URI, and a map
\* without that key is rejected
UnmarshalRepoSpec(v) ==
    IF "RepoSpec" \in DOMAIN v
    THEN [spec |-> RepoSpec(v["RepoSpec"]), err |-> NilErr]
    ELSE [spec |-> RepoSpec(<<>>), err |-> RepoSpecErr]

PullRequestSpec_RouteVars(s) ==
    [k \in {"RepoSpec", "Pull"} |->
        IF k = "RepoSpec" THEN s.Repo.URI ELSE Itoa(s.Number)]

IssueSpec(s) == [Repo |-> s.Repo, Number |-> s.Number]


\* UnmarshalPullRequestSpec reading the number from the wrong key
UnmarshalPullRequestSpec_WrongKey(v) ==
    LET r == UnmarshalRepoSpec(v)
    IN  IF r.err # NilErr
        THEN [spec |-> PullRequestSpec(r.spec, 0), err |-> r.err]
        ELSE LET a == Atoi(MapGet(v, "CommentID"))
             IN  [spec |-> PullRequestSpec(r.spec, a.n), err |-> a.err]

UnmarshalPullRequestSpec(v) ==
    LET r == UnmarshalRepoSpec(v)
    IN  IF r.err # NilErr
        THEN [spec |-> PullRequestSpec(r.spec, 0), err |-> r.err]
        ELSE LET a == Atoi(MapGet(v, "Pull"))
             IN  [spec |-> PullRequestSpec(r.spec, a.n), err |-> a.err]


\* UnmarshalPullRequestCommentSpec whose first err shadows the named
\* result, so that the early return hands back a nil error
UnmarshalPullRequestCommentSpec_Shadowed(v) ==
    LET p == UnmarshalPullRequestSpec(v)
    IN  IF p.err # NilErr
        THEN [spec |-> ZeroPullRequestCommentSpec, err |-> NilErr]
        ELSE LET c == Atoi(MapGet(v, "CommentID"))
             IN  IF c.err # NilErr
                 THEN [spec |-> ZeroPullRequestCommentSpec, err |-> c.err]
                 ELSE [spec |-> PullRequestCommentSpec(p.spec, c.n),
                       err |-> NilErr]

UnmarshalPullRequestCommentSpec(v) ==
    LET p == UnmarshalPullRequestSpec(v)
    IN  IF p.err # NilErr
        THEN [spec |-> ZeroPullRequestCommentSpec, err |-> p.err]
        ELSE LET c == Atoi(MapGet(v, "CommentID"))
             IN  IF c.err # NilErr
                 THEN [spec |-> ZeroPullRequestCommentSpec, err |-> c.err]
                 ELSE [spec |-> PullRequestCommentSpec(p.spec, c.n),
                       err |-> NilErr]


\* PullRequestCommentSpec.RouteVars replacing the pull request's map
PullRequestCommentSpec_RouteVars_Replaced(c) ==
    [k \in {"CommentID"} |-> Itoa(c.Comment)]

PullRequestCommentSpec_RouteVars(c) ==
    LET rv == PullRequestSpec_RouteVars(c.Pull)
    IN  [k \in DOMAIN rv \cup {"CommentID"} |->
            IF k = "CommentID" THEN Itoa(c.Comment) ELSE rv[k]]

HTTPS == <<"h", "t", "t", "p", "s", ":", "/", "/">>

\* (*PullRequest).Spec: slicing the split URL to [0:3] panics when the
\* split has fewer than three elements
PullRequest_Spec(r) ==
    LET parts == Split(TrimPrefix(r.HTMLURL, HTTPS), "/")
    IN  IF Len(parts) < 3
        THEN [panic |-> TRUE, spec |-> ZeroPullRequestSpec]
        ELSE [panic |-> FALSE,
              spec |-> PullRequestSpec(RepoSpec(Join(SubSeq(parts, 1, 3), "/")),
                                       r.Number)]

----------------------------------------------------------------------------
(* Inputs *)

TextChars == {"$", "@", "a", "0", "1", "-", "+"}

Texts == StringsUpTo(TextChars, MaxTextLen)

Names == StringsUpTo(TextChars, MaxNameLen)

\* every PersonSpec with at most one field populated, and some with two
PersonSpecs ==
    {PersonSpec(l, <<>>, 0) : l \in Names}
        \cup {PersonSpec(<<>>, e, 0) : e \in Names}
        \cup {PersonSpec(<<>>, <<>>, u) : u \in -1..MaxInt}
        \cup {PersonSpec(l, e, u) : l \in {<<"a">>}, e \in {<<"a", "@">>}, u \in {0, 1}}
        \cup {PersonSpec(<<"a">>, <<>>, 1)}

URIs == {<<>>, <<"a">>, <<"a", "/", "b">>}

PullRequestSpecs == {PullRequestSpec(RepoSpec(u), n) : u \in URIs, n \in GoInt}

PullRequestCommentSpecs ==
    {PullRequestCommentSpec(p, c) : p \in PullRequestSpecs, c \in GoInt}

VarChars == {"0", "5", "9", "-", "x"}

VarValues == StringsUpTo(VarChars, MaxVarLen)

Absent == <<"<absent>">>

MakeMap(r, p, c) ==
    [k \in {x \in {"RepoSpec", "Pull", "CommentID"} :
                \/ x = "RepoSpec" /\ r # Absent
                \/ x = "Pull" /\ p # Absent
                \/ x = "CommentID" /\ c # Absent} |->
        IF k = "RepoSpec" THEN r ELSE IF k = "Pull" THEN p ELSE c]

\* route-variable maps: any subset of the three keys
RouteVarMaps ==
    {MakeMap(r, p, c) : r \in URIs \cup {Absent}, p \in VarValues \cup {Absent},
                        c \in VarValues \cup {Absent}}

Schemes == {<<>>, HTTPS, <<"h", "t", "t", "p", ":", "/", "/">>}

Hosts == {<<>>, <<"g">>}

Segments == {<<>>, <<"a">>, <<"b">>}

SegmentLists == StringsUpTo(Segments, MaxSegs)

RECURSIVE PathOf(_)
PathOf(segs) ==
    IF Len(segs) = 0 THEN <<>> ELSE <<"/">> \o segs[1] \o PathOf(Tail(segs))

\* a web-page URL: scheme, host, then "/"-prefixed path segments
URLOf(scheme, host, segs) == scheme \o host \o PathOf(segs)

PullNumbers == {0, 1, 5}

----------------------------------------------------------------------------
(* Calls of the codec: call holds one call, first with its input only    *)
(* (phase "in"), then with its result (phase "out")                       *)

NoCall == [op |-> "none", phase |-> "out"]

Pending(op) == call.op = op /\ call.phase = "in"

Done(op) == call.op = op /\ call.phase = "out"

ParseInputs == {[op |-> "ParsePersonSpec", phase |-> "in", text |-> t] : t \in Texts}

FormatInputs == {[op |-> "PathComponent", phase |-> "in", spec |-> s] : s \in PersonSpecs}

PullRouteVarsInputs ==
    {[op |-> "PullRequestSpec.RouteVars", phase |-> "in", spec |-> p] :
        p \in PullRequestSpecs}

CommentRouteVarsInputs ==
    {[op |-> "PullRequestCommentSpec.RouteVars", phase |-> "in", spec |-> c] :
        c \in PullRequestCommentSpecs}

UnmarshalPullInputs ==
    {[op |-> "UnmarshalPullRequestSpec", phase |-> "in", rv |-> v] : v \in RouteVarMaps}

UnmarshalCommentInputs ==
    {[op |-> "UnmarshalPullRequestCommentSpec", phase |-> "in", rv |-> v] :
        v \in RouteVarMaps}

SpecInputs ==
    {[op |-> "PullRequest.Spec", phase |-> "in", scheme |-> scheme, host |-> host,
      segs |-> segs,
      pr |-> [HTMLURL |-> URLOf(scheme, host, segs), Number |-> n]] :
        scheme \in Schemes, host \in Hosts, segs \in SegmentLists, n \in PullNumbers}

\* parse a text and, as the test does, format the parsed spec back
ParseAndFormat ==
    /\ Pending("ParsePersonSpec")
    /\ LET r == ParsePersonSpec(call.text)
       IN  \E f \in (IF r.err = NilErr THEN PathComponent(r.spec) ELSE {FormatPanic}) :
               call' = [op |-> call.op, phase |-> "out", text |-> call.text,
                        res |-> r, formatted |-> f]

\* format a spec and parse the text back
FormatAndParse ==
    /\ Pending("PathComponent")
    /\ \E f \in PathComponent(call.spec) :
           call' = [op |-> call.op, phase |-> "out", spec |-> call.spec,
                    formatted |-> f,
                    res |-> IF f.panic
                            THEN [spec |-> ZeroPersonSpec, err |-> NilErr]
                            ELSE ParsePersonSpec(f.str)]

PullRouteVars ==
    /\ Pending("PullRequestSpec.RouteVars")
    /\ LET rv == PullRequestSpec_RouteVars(call.spec)
       IN  call' = [op |-> call.op, phase |-> "out", spec |-> call.spec,
                    rv |-> rv, issue |-> IssueSpec(call.spec),
                    res |-> UnmarshalPullRequestSpec(rv)]

CommentRouteVars ==
    /\ Pending("PullRequestCommentSpec.RouteVars")
    /\ LET rv == PullRequestCommentSpec_RouteVars(call.spec)
       IN  call' = [op |-> call.op, phase |-> "out", spec |-> call.spec,
                    rv |-> rv,
                    pullrv |-> PullRequestSpec_RouteVars(call.spec.Pull),
                    res |-> UnmarshalPullRequestCommentSpec(rv)]

UnmarshalPull ==
    /\ Pending("UnmarshalPullRequestSpec")
    /\ call' = [op |-> call.op, phase |-> "out", rv |-> call.rv,
                repo |-> UnmarshalRepoSpec(call.rv),
                res |-> UnmarshalPullRequestSpec(call.rv)]

UnmarshalComment ==
    /\ Pending("UnmarshalPullRequestCommentSpec")
    /\ call' = [op |-> call.op, phase |-> "out", rv |-> call.rv,
                repo |-> UnmarshalRepoSpec(call.rv),
                pull |-> UnmarshalPullRequestSpec(call.rv),
                res |-> UnmarshalPullRequestCommentSpec(call.rv)]

SpecOfPullRequest ==
    /\ Pending("PullRequest.Spec")
    /\ call' = [op |-> call.op, phase |-> "out", scheme |-> call.scheme,
                host |-> call.host, segs |-> call.segs, pr |-> call.pr,
                res |-> PullRequest_Spec(call.pr)]

----------------------------------------------------------------------------
(* pullRequestsService: each operation is a sequence of steps, recorded in *)
(* svc.steps; the collaborators (URL construction, request construction,  *)
(* transport) succeed or fail nondeterministically.                        *)

URLErr == [kind |-> "url error", num |-> <<>>]

RequestErr == [kind |-> "request error", num |-> <<>>]

TransportErr == [kind |-> "transport error", num |-> <<>>]

CommentIDErr == [kind |-> "comment ID not specified", num |-> <<>>]

\* a *PullRequestComment argument: nil, or a comment whose ID is nil or set
NilComment == [isNil |-> TRUE, hasID |-> FALSE, ID |-> 0]

Comment(hasID, id) == [isNil |-> FALSE, hasID |-> hasID, ID |-> id]

Comments == {NilComment, Comment(FALSE, 0), Comment(TRUE, 7)}

SvcPulls == {PullRequestSpec(RepoSpec(u), n) : u \in URIs, n \in {-1, 5}}

NoURL == [route |-> "", rv |-> <<>>]

NoReq == [method |-> "", body |-> "none"]

NoRet == [result |-> "nil", resp |-> "nil", err |-> NilErr]

SvcIdle ==
    [op |-> "none", pc |-> "idle", pull |-> ZeroPullRequestSpec,
     comment |-> NilComment, url |-> NoURL, req |-> NoReq, steps |-> <<>>,
     ret |-> NoRet]

\* the repo collaborator's RouteVars: the URI under "RepoSpec"
RepoSpec_RouteVars(r) == [k \in {"RepoSpec"} |-> r.URI]

At(op, pc) == svc.op = op /\ svc.pc = pc

\* a call begins: the arguments are bound and nothing has run yet
Enter(op, first, pull, comment) ==
    /\ svc.pc \in {"idle", "returned", "panicked"}
    /\ svc' = [SvcIdle EXCEPT !.op = op, !.pc = first, !.pull = pull,
                              !.comment = comment]

Return(s, result, resp, err) ==
    [s EXCEPT !.pc = "returned",
              !.ret = [result |-> result, resp |-> resp, err |-> err]]

Step(name, err) == [name |-> name, err |-> err]

\* s.client.url(route, routeVars, opt), and the return on its error
ClientURL(route, rv) ==
    \E err \in {NilErr, URLErr} :
        LET s == [svc EXCEPT !.steps = Append(@, Step("url", err)),
                             !.url = [route |-> route, rv |-> rv]]
        IN  svc' = IF err # NilErr THEN Return(s, "nil", "nil", err)
                   ELSE [s EXCEPT !.pc = "request"]


\* NewRequest whose error is not checked: the call goes on to the transport
ClientNewRequest_Unchecked(method, body) ==
    \E err \in {NilErr, RequestErr} :
        svc' = [svc EXCEPT !.steps = Append(@, Step("request", err)),
                           !.req = [method |-> method, body |-> body],
                           !.pc = "do"]

\* s.client.NewRequest(method, url.String(), body), and the return on its error
ClientNewRequest(method, body) ==
    \E err \in {NilErr, RequestErr} :
        LET s == [svc EXCEPT !.steps = Append(@, Step("request", err)),
                             !.req = [method |-> method, body |-> body]]
        IN  svc' = IF err # NilErr THEN Return(s, "nil", "nil", err)
                   ELSE [s EXCEPT !.pc = "do"]

\* s.client.Do(req, &v) and the returns after it; keepResp tells whether
\* the operation hands the response back when Do failed
ClientDo(result, keepResp) ==
    \E err \in {NilErr, TransportErr}, resp \in {"nil", "resp"} :
        LET s == [svc EXCEPT !.steps = Append(@, Step("do", err))]
        IN  /\ err = NilErr => resp = "resp"
            /\ svc' = IF err # NilErr
                      THEN Return(s, "nil", IF keepResp THEN resp ELSE "nil", err)
                      ELSE Return(s, result, resp, NilErr)

Get ==
    \/ \E pull \in SvcPulls : Enter("Get", "url", pull, NilComment)
    \/ At("Get", "url")
         /\ ClientURL("RepoPullRequest", PullRequestSpec_RouteVars(svc.pull))
    \/ At("Get", "request") /\ ClientNewRequest("GET", "none")
    \/ At("Get", "do") /\ ClientDo("pull", TRUE)

\* the repo argument is held in svc.pull.Repo
ListByRepo ==
    \/ \E u \in URIs :
         Enter("ListByRepo", "url", PullRequestSpec(RepoSpec(u), 0), NilComment)
    \/ At("ListByRepo", "url")
         /\ ClientURL("RepoPullRequests", RepoSpec_RouteVars(svc.pull.Repo))
    \/ At("ListByRepo", "request") /\ ClientNewRequest("GET", "none")
    \/ At("ListByRepo", "do") /\ ClientDo("pulls", TRUE)

ListComments ==
    \/ \E pull \in SvcPulls : Enter("ListComments", "url", pull, NilComment)
    \/ At("ListComments", "url")
         /\ ClientURL("RepoPullRequestComments", PullRequestSpec_RouteVars(svc.pull))
    \/ At("ListComments", "request") /\ ClientNewRequest("GET", "none")
    \/ At("ListComments", "do") /\ ClientDo("comments", TRUE)

CreateComment ==
    \/ \E pull \in SvcPulls, c \in Comments : Enter("CreateComment", "url", pull, c)
    \/ At("CreateComment", "url")
         /\ ClientURL("RepoPullRequestCommentsCreate",
                      PullRequestSpec_RouteVars(svc.pull))
    \/ At("CreateComment", "request") /\ ClientNewRequest("POST", "comment")
    \/ At("CreateComment", "do") /\ ClientDo("createdComment", FALSE)

\* reading comment.ID of a nil comment panics
EditComment ==
    \/ \E pull \in SvcPulls, c \in Comments : Enter("EditComment", "check", pull, c)
    \/ At("EditComment", "check") /\ svc.comment.isNil
         /\ svc' = [svc EXCEPT !.pc = "panicked"]
    \/ At("EditComment", "check") /\ ~svc.comment.isNil /\ ~svc.comment.hasID
         /\ svc' = Return([svc EXCEPT !.steps = Append(@, Step("check", CommentIDErr))],
                          "nil", "nil", CommentIDErr)
    \/ At("EditComment", "check") /\ ~svc.comment.isNil /\ svc.comment.hasID
         /\ svc' = [svc EXCEPT !.steps = Append(@, Step("check", NilErr)),
                               !.pc = "url"]
    \/ At("EditComment", "url")
         /\ ClientURL("RepoPullRequestCommentsEdit",
                      PullRequestCommentSpec_RouteVars(
                          PullRequestCommentSpec(svc.pull, svc.comment.ID)))
    \/ At("EditComment", "request") /\ ClientNewRequest("PATCH", "comment")
    \/ At("EditComment", "do") /\ ClientDo("updatedComment", FALSE)

\* the commentID argument is held in svc.comment.ID
DeleteComment ==
    \/ \E pull \in SvcPulls, id \in {0, 7} :
         Enter("DeleteComment", "url", pull, Comment(TRUE, id))
    \/ At("DeleteComment", "url")
         /\ ClientURL("RepoPullRequestCommentsDelete",
                      PullRequestCommentSpec_RouteVars(
                          PullRequestCommentSpec(svc.pull, svc.comment.ID)))
    \/ At("DeleteComment", "request") /\ ClientNewRequest("DELETE", "none")
    \/ At("DeleteComment", "do") /\ ClientDo("nil", FALSE)

----------------------------------------------------------------------------
(* Specifications *)

Init ==
    /\ \/ call \in ParseInputs
       \/ call \in FormatInputs
       \/ call \in PullRouteVarsInputs
       \/ call \in CommentRouteVarsInputs
       \/ call \in UnmarshalPullInputs
       \/ call \in UnmarshalCommentInputs
       \/ call \in SpecInputs
    /\ svc = SvcIdle

Next ==
    \/ ParseAndFormat /\ UNCHANGED svc
    \/ FormatAndParse /\ UNCHANGED svc
    \/ PullRouteVars /\ UNCHANGED svc
    \/ CommentRouteVars /\ UNCHANGED svc
    \/ UnmarshalPull /\ UNCHANGED svc
    \/ UnmarshalComment /\ UNCHANGED svc
    \/ SpecOfPullRequest /\ UNCHANGED svc

Spec == Init /\ [][Next]_vars

NextService ==
    \/ Get /\ UNCHANGED call
    \/ ListByRepo /\ UNCHANGED call
    \/ ListComments /\ UNCHANGED call
    \/ CreateComment /\ UNCHANGED call
    \/ EditComment /\ UNCHANGED call
    \/ DeleteComment /\ UNCHANGED call

InitService == call = NoCall /\ svc = SvcIdle

SpecService == InitService /\ [][NextService]_vars


----------------------------------------------------------------------------
(* Properties *)

\* the digits of s after an optional sign
Unsigned(s) == IF Len(s) > 0 /\ s[1] \in {"+", "-"} THEN Tail(s) ELSE s

\* s is an optionally signed, non-empty run of decimal digits
DecimalInteger(s) ==
    /\ Len(Unsigned(s)) > 0
    /\ \A i \in 1..Len(Unsigned(s)) :
           Unsigned(s)[i] \in {"0", "1", "2", "3", "4", "5", "6", "7", "8", "9"}

\* s denotes the non-negative integer n: leading zeros, then n in canonical
\* decimal; a "-" sign is possible for zero only
Denotes(s, n) ==
    /\ DecimalInteger(s)
    /\ s[1] = "-" => n = 0
    /\ LET ds == Unsigned(s)
       IN  \E k \in 0..(Len(ds) - 1) :
               /\ \A i \in 1..k : ds[i] = "0"
               /\ SubSeq(ds, k + 1, Len(ds)) = FormatUint(n)

Ok(spec) == [spec |-> spec, err |-> NilErr]

\* C1: for every text t that ParsePersonSpec accepts, formatting the parsed
\* spec gives back exactly t
C1_FormatParseText ==
    Done("ParsePersonSpec") /\ call.res.err = NilErr
        => call.formatted = Formatted(call.text)

\* C2 as stated: for every PersonSpec s with exactly one field populated,
\* parsing the formatted text gives back s
C2_ParseFormatSpec_AnyField ==
    Done("PathComponent") /\ Populated(call.spec) = 1
        => ~call.formatted.panic /\ call.res = Ok(call.spec)

\* a login without "@" and without a leading "$", an email with "@" and
\* without a leading "$", a UID that is not negative
Unambiguous(s) ==
    /\ s.UID >= 0
    /\ s.Login # <<>> => ~Contains(s.Login, "@") /\ ~HasPrefix(s.Login, <<"$">>)
    /\ s.Email # <<>> => Contains(s.Email, "@") /\ ~HasPrefix(s.Email, <<"$">>)

\* C2 amended: for every PersonSpec s with exactly one field populated whose
\* login has no "@" and no leading "$", whose email has an "@" and no leading
\* "$", and whose UID is not negative, parsing the formatted text gives back s
C2_ParseFormatSpec ==
    Done("PathComponent") /\ Populated(call.spec) = 1 /\ Unambiguous(call.spec)
        => ~call.formatted.panic /\ call.res = Ok(call.spec)

C2_Witness ==
    /\ Done("PathComponent")
    /\ call.spec = PersonSpec(<<>>, <<>>, 10)
    /\ call.formatted = Formatted(<<"$", "1", "0">>)
    /\ call.res = Ok(call.spec)

\* C3: unmarshalling the route variables of a PullRequestSpec or of a
\* PullRequestCommentSpec gives back that spec and no error
C3_UnmarshalRouteVars ==
    /\ Done("PullRequestSpec.RouteVars") => call.res = Ok(call.spec)
    /\ Done("PullRequestCommentSpec.RouteVars") => call.res = Ok(call.spec)

C3_Witness ==
    /\ Done("PullRequestCommentSpec.RouteVars")
    /\ call.spec = PullRequestCommentSpec(
                       PullRequestSpec(RepoSpec(<<"a", "/", "b">>), -12), 0)
    /\ call.rv["Pull"] = <<"-", "1", "2">>
    /\ call.res = Ok(call.spec)

\* C4: a text with a leading "$" parses to a UID-only spec holding the
\* non-negative integer its remainder denotes, and fails with InvalidFormat
\* when the remainder is no integer; otherwise a text with "@" parses to an
\* Email-only spec holding the text; otherwise to a Login-only spec holding
\* the text
C4_LexicalPriority ==
    Done("ParsePersonSpec") =>
        LET t == call.text
            r == call.res
        IN  IF HasPrefix(t, <<"$">>)
            THEN /\ r.err = NilErr =>
                        /\ r.spec.Login = <<>> /\ r.spec.Email = <<>>
                        /\ r.spec.UID >= 0
                        /\ Denotes(Tail(t), r.spec.UID)
                 /\ r.err # NilErr => r.err.kind = "InvalidFormat"
                 /\ ~DecimalInteger(Tail(t)) => r.err # NilErr
                 /\ (\E n \in 0..MaxInt : Denotes(Tail(t), n)) => r.err = NilErr
            ELSE IF Contains(t, "@")
            THEN r = Ok(PersonSpec(<<>>, t, 0))
            ELSE r = Ok(PersonSpec(t, <<>>, 0))

C4_Witness ==
    /\ Done("ParsePersonSpec")
    /\ call.text = <<"$", "1", "@">>
    /\ call.res.err.kind = "InvalidFormat"

\* C5: every PersonSpec that ParsePersonSpec returns without error has
\* exactly one of Login, Email, UID populated
C5_ExactlyOnePopulated ==
    Done("ParsePersonSpec") /\ call.res.err = NilErr
        => Populated(call.res.spec) = 1

\* C6: UnmarshalPullRequestSpec fails when "Pull" is missing or no decimal
\* integer and returns the repo error when repo extraction fails;
\* UnmarshalPullRequestCommentSpec fails likewise, returns every error of
\* UnmarshalPullRequestSpec, and fails when "CommentID" is missing or no
\* decimal integer
C6_UnmarshalErrors ==
    /\ Done("UnmarshalPullRequestSpec") =>
           /\ call.repo.err # NilErr => call.res.err = call.repo.err
           /\ "Pull" \notin DOMAIN call.rv => call.res.err # NilErr
           /\ ~DecimalInteger(MapGet(call.rv, "Pull")) => call.res.err # NilErr
    /\ Done("UnmarshalPullRequestCommentSpec") =>
           /\ call.repo.err # NilErr => call.res.err = call.repo.err
           /\ call.pull.err # NilErr => call.res.err = call.pull.err
           /\ "Pull" \notin DOMAIN call.rv => call.res.err # NilErr
           /\ ~DecimalInteger(MapGet(call.rv, "Pull")) => call.res.err # NilErr
           /\ "CommentID" \notin DOMAIN call.rv => call.res.err # NilErr
           /\ ~DecimalInteger(MapGet(call.rv, "CommentID")) => call.res.err # NilErr

C6_Witness ==
    /\ Done("UnmarshalPullRequestCommentSpec")
    /\ DOMAIN call.rv = {"RepoSpec", "CommentID"}
    /\ call.rv["CommentID"] = <<"5">>
    /\ call.res.err = NumError(<<>>, "ErrSyntax")

\* C7: the route variables of a PullRequestCommentSpec have exactly the keys
\* RepoSpec, Pull and CommentID, agree with the pull request's route
\* variables on RepoSpec (the repo URI) and Pull (the decimal of Number), and
\* hold the decimal of Comment under CommentID
C7_CommentRouteVars ==
    Done("PullRequestCommentSpec.RouteVars") =>
        /\ DOMAIN call.rv = {"RepoSpec", "Pull", "CommentID"}
        /\ DOMAIN call.pullrv = {"RepoSpec", "Pull"}
        /\ \A k \in DOMAIN call.pullrv : call.rv[k] = call.pullrv[k]
        /\ call.rv["RepoSpec"] = call.spec.Pull.Repo.URI
        /\ call.rv["Pull"] = Itoa(call.spec.Pull.Number)
        /\ call.rv["CommentID"] = Itoa(call.spec.Comment)
        /\ call.spec = PullRequestCommentSpec(
                           PullRequestSpec(RepoSpec(<<"a", "/", "b">>), 5), 7)
             => call.rv = [RepoSpec |-> <<"a", "/", "b">>, Pull |-> <<"5">>,
                           CommentID |-> <<"7">>]

C7_Witness ==
    /\ Done("PullRequestCommentSpec.RouteVars")
    /\ call.spec = PullRequestCommentSpec(
                       PullRequestSpec(RepoSpec(<<"a", "/", "b">>), 5), 7)
    /\ call.rv["CommentID"] = <<"7">>

\* C8: for a pull request whose HTMLURL has a host and at least two path
\* segments, whatever its scheme, Spec returns the host and the first two
\* path segments joined by "/" as the repo URI, and the pull request's number
C8_SpecFromURL ==
    Done("PullRequest.Spec") /\ call.host # <<>> /\ Len(call.segs) >= 2
        => /\ ~call.res.panic
           /\ call.res.spec.Repo.URI =
                  call.host \o <<"/">> \o call.segs[1] \o <<"/">> \o call.segs[2]
           /\ call.res.spec.Number = call.pr.Number

\* C9: when UnmarshalPullRequestSpec or UnmarshalPullRequestCommentSpec
\* returns an error, the spec returned with it is the zero value
C9_AllOrNothing ==
    /\ Done("UnmarshalPullRequestSpec") /\ call.res.err # NilErr
           => call.res.spec = ZeroPullRequestSpec
    /\ Done("UnmarshalPullRequestCommentSpec") /\ call.res.err # NilErr
           => call.res.spec = ZeroPullRequestCommentSpec

StepOrder(op) ==
    IF op = "EditComment" THEN <<"check", "url", "request", "do">>
    ELSE <<"url", "request", "do">>

\* C10: the steps of a service operation run in the order (EditComment:
\* comment-ID check,) URL construction, request construction, transport; the
\* transport runs at most once and only after every earlier step succeeded;
\* the first failing step ends the call, and the call returns that step's
\* error with a nil result; EditComment without a comment ID stops at the
\* check
C10_StepOrder ==
    svc.op # "none" =>
        LET n == Len(svc.steps)
        IN  /\ n <= Len(StepOrder(svc.op))
            /\ \A i \in 1..n : svc.steps[i].name = StepOrder(svc.op)[i]
            /\ \A i \in 1..(n - 1) : svc.steps[i].err = NilErr
            /\ Cardinality({i \in 1..n : svc.steps[i].name = "do"}) <= 1
            /\ svc.pc \notin {"returned", "panicked"}
                   => /\ \A i \in 1..n : svc.steps[i].err = NilErr
                      /\ svc.pc = StepOrder(svc.op)[n + 1]
            /\ svc.pc = "returned"
                   => /\ n >= 1
                      /\ svc.ret.err = svc.steps[n].err
                      /\ svc.ret.err # NilErr => svc.ret.result = "nil"
                      /\ svc.ret.err = NilErr => n = Len(StepOrder(svc.op))
            /\ svc.op = "EditComment" /\ ~svc.comment.hasID
                   => \A i \in 1..n : svc.steps[i].name = "check"

C10_Witness ==
    /\ svc.op = "EditComment"
    /\ svc.pc = "returned"
    /\ svc.comment = Comment(TRUE, 7)
    /\ Len(svc.steps) = 3
    /\ svc.steps[3] = Step("request", RequestErr)
    /\ svc.ret = [result |-> "nil", resp |-> "nil", err |-> RequestErr]

====
